---------------------------- MODULE Spec2Model ----------------------------
(***************************************************************************)
(* A model of the CORS middleware of quintinheard/traefik-cors:            *)
(*   cors/cors.go       the header rules, NewHandler and handler.ServeHTTP *)
(*   traefik/plugin.go  the Traefik plugin wrapping the handler            *)
(*                                                                         *)
(* Three specifications share the variables below.                         *)
(*   RulesSpec  a caller builds an Options value and a Request and calls   *)
(*              one of the exported rule methods on them.                  *)
(*   Spec       the plugin: New builds the Options and its cache, then     *)
(*              CorsPlugin.ServeHTTP handles requests.                     *)
(*   LibSpec    the cors package used directly: a client holding *Options  *)
(*              calls NewHandler (line by line) while handler.ServeHTTP    *)
(*              runs on the same Options.                                  *)
(***************************************************************************)
EXTENDS Integers, Sequences, FiniteSets, TLC

VARIABLES
    o,          \* the cors.Options value (the handler is the same pointer)
    req,        \* the request being handled / passed to a rule
    rw,         \* the http.ResponseWriter of the request: header, status, body
    rw0,        \* rw as it was when the request reached the middleware
    rwCors,     \* rw as handler.ServeHTTP left it
    pc,         \* position of the request in ServeHTTP
    nextCalls,  \* how often the next stage was invoked for the request
    nextReq,    \* the request the next stage was handed
    called,     \* RulesSpec: the rule method last called
    result,     \* RulesSpec: what it returned
    pcN,        \* LibSpec: position of the client inside NewHandler
    handlers,   \* LibSpec: number of handlers NewHandler has returned
    builds      \* LibSpec: number of times NewHandler started building the cache

vars ==
    <<o, req, rw, rw0, rwCors, pc, nextCalls, nextReq, called, result, pcN, handlers, builds>>

---------------------------------------------------------------------------
(* Header names and values, cors.go:11-60 *)

HeaderOrigin == "Origin"
HeaderVary == "Vary"
HeaderAllowCredentials == "Access-Control-Allow-Credentials"
HeaderAllowOrigin == "Access-Control-Allow-Origin"
HeaderAllowHeaders == "Access-Control-Allow-Headers"
HeaderAllowMethods == "Access-Control-Allow-Methods"
HeaderExposeHeaders == "Access-Control-Expose-Headers"
HeaderMaxAge == "Access-Control-Max-Age"
HeaderRequestMethod == "Access-Control-Request-Method"
HeaderRequestHeaders == "Access-Control-Request-Headers"
HeaderValueWildcard == "*"
DefaultMaxAge == 5

MethodOptions == "OPTIONS"
StatusNoContent == 204

---------------------------------------------------------------------------
(* Bounds *)

\* longest configured list a rule method is called with
MaxLen == 2
\* longest AllowMethods / AllowHeaders / ExposeHeaders list of a plugin Config
MaxCfgLen == 1
\* largest |MaxAge| a rule method is called with
MaxAgeAbs == 12
\* NewHandler calls a client makes on one Options value
MaxBuilds == 2

---------------------------------------------------------------------------
(* Values *)

Range(s) == {s[i] : i \in 1..Len(s)}

RECURSIVE Lists(_, _)
Lists(S, n) ==
    IF n = 0 THEN {<<>>}
    ELSE LET shorter == Lists(S, n - 1)
         IN  shorter \cup {Append(l, x) : l \in {m \in shorter : Len(m) = n - 1}, x \in S}

OriginA == "https://example.com"
OriginB == "https://evil.com"

ResponseHeaderNames ==
    {HeaderVary, HeaderAllowOrigin, HeaderAllowCredentials, HeaderAllowMethods,
     HeaderAllowHeaders, HeaderMaxAge, HeaderExposeHeaders}

\* http.Header.Get on a request: the value, "" when the header is absent
MkRequest(method, origin, acrm, acrh) ==
    [Method |-> method,
     Header |-> (HeaderOrigin :> origin) @@ (HeaderRequestMethod :> acrm)
                @@ (HeaderRequestHeaders :> acrh)]

NoRequest == MkRequest("", "", "", "")

\* http.Header of a response: name -> list of values
HeaderSet(h, k, v) == [h EXCEPT ![k] = <<v>>]
HeaderAdd(h, k, v) == [h EXCEPT ![k] = Append(@, v)]

EmptyHeader == [k \in ResponseHeaderNames |-> <<>>]

\* a response some earlier middleware has already put headers on
UsedHeader ==
    [k \in ResponseHeaderNames |->
        IF k = HeaderVary THEN <<"Accept-Encoding">> ELSE <<"stale">>]

NewResponse(h) == [header |-> h, status |-> 0, body |-> ""]

\* http.ResponseWriter.WriteHeader: the first status written is the one sent
WriteHeader(w, code) == IF w.status = 0 THEN [w EXCEPT !.status = code] ELSE w

---------------------------------------------------------------------------
(* cors.go: Request.IsPreflight *)

IsPreflightNoHeaders(r) ==
    /\ r.Method = MethodOptions
    /\ r.Header[HeaderOrigin] # ""
    /\ r.Header[HeaderRequestMethod] # ""

IsPreflight(r) ==
    /\ r.Method = MethodOptions
    /\ r.Header[HeaderOrigin] # ""
    /\ r.Header[HeaderRequestMethod] # ""
    /\ r.Header[HeaderRequestHeaders] # ""

---------------------------------------------------------------------------
(* cors.go: Options and its rule methods *)

NilCache == [k \in {} |-> ""]

\* reading a Go map: the zero value "" for a missing key (and for a nil map)
CacheGet(c, k) == IF k \in DOMAIN c THEN c[k] ELSE ""
CachePut(c, k, v) == (k :> v) @@ c

NewOptions ==
    [AllowCredentials |-> FALSE,
     AllowHeaders     |-> <<>>,
     AllowMethods     |-> <<>>,
     AllowOrigins     |-> <<>>,
     ExposeHeaders    |-> <<>>,
     MaxAge           |-> DefaultMaxAge,
     cache            |-> NilCache]

\* the range loop of GetAllowOrigin from entry i on, result being the match so far
RECURSIVE AllowOriginLoop(_, _, _, _)
AllowOriginLoop(aos, origin, i, res) ==
    IF i > Len(aos) THEN res
    ELSE IF aos[i] = HeaderValueWildcard THEN HeaderValueWildcard
    ELSE IF aos[i] = origin THEN AllowOriginLoop(aos, origin, i + 1, origin)
    ELSE AllowOriginLoop(aos, origin, i + 1, res)

GetAllowOriginFirstOnly(opt, r) ==
    IF Len(opt.AllowOrigins) = 0 THEN ""
    ELSE AllowOriginLoop(SubSeq(opt.AllowOrigins, 1, 1), r.Header[HeaderOrigin], 1, "")

GetAllowOrigin(opt, r) ==
    AllowOriginLoop(opt.AllowOrigins, r.Header[HeaderOrigin], 1, "")

GetAllowCredentials(opt) == IF opt.AllowCredentials THEN "true" ELSE ""

\* the range loop "if x == HeaderValueWildcard { return HeaderValueWildcard }"
RECURSIVE HasWildcardFrom(_, _)
HasWildcardFrom(l, i) ==
    IF i > Len(l) THEN FALSE
    ELSE IF l[i] = HeaderValueWildcard THEN TRUE
    ELSE HasWildcardFrom(l, i + 1)

\* strings.Join(elems, sep)
RECURSIVE JoinFrom(_, _, _)
JoinFrom(elems, sep, i) ==
    IF i > Len(elems) THEN ""
    ELSE IF i = Len(elems) THEN elems[i]
    ELSE elems[i] \o sep \o JoinFrom(elems, sep, i + 1)

Join(elems, sep) == JoinFrom(elems, sep, 1)

GetAllowMethodsCommaOnly(opt) ==
    IF HasWildcardFrom(opt.AllowMethods, 1) THEN HeaderValueWildcard
    ELSE Join(opt.AllowMethods, ",")

GetAllowMethods(opt) ==
    IF HasWildcardFrom(opt.AllowMethods, 1) THEN HeaderValueWildcard
    ELSE Join(opt.AllowMethods, ", ")

GetAllowHeaders(opt) ==
    IF HasWildcardFrom(opt.AllowHeaders, 1) THEN HeaderValueWildcard
    ELSE Join(opt.AllowHeaders, ", ")

GetExposeHeaders(opt) ==
    IF HasWildcardFrom(opt.ExposeHeaders, 1) THEN HeaderValueWildcard
    ELSE Join(opt.ExposeHeaders, ", ")

\* strconv.Itoa: the decimal digits, most significant first, "-" before a negative
Digit(d) == SubSeq("0123456789", d + 1, d + 1)

RECURSIVE FormatUint(_)
FormatUint(u) ==
    IF u < 10 THEN Digit(u) ELSE FormatUint(u \div 10) \o Digit(u % 10)

Itoa(i) == IF i < 0 THEN "-" \o FormatUint(-i) ELSE FormatUint(i)

GetMaxAgeOmitNonPositive(opt) == IF opt.MaxAge <= 0 THEN "" ELSE Itoa(opt.MaxAge)

GetMaxAge(opt) == Itoa(opt.MaxAge)

GetVaryAnyOrigin(opt) == IF Len(opt.AllowOrigins) >= 1 THEN HeaderOrigin ELSE ""

GetVary(opt) == IF Len(opt.AllowOrigins) > 1 THEN HeaderOrigin ELSE ""

---------------------------------------------------------------------------
(* cors.go: Options.NewHandler, statement by statement *)

MakeCache(opt) == [opt EXCEPT !.cache = NilCache]

StoreAllowMethods(opt) ==
    [opt EXCEPT !.cache = CachePut(@, HeaderAllowMethods, GetAllowMethods(opt))]

StoreAllowHeadersFromMethods(opt) ==
    [opt EXCEPT !.cache = CachePut(@, HeaderAllowHeaders, GetAllowMethods(opt))]

StoreAllowHeaders(opt) ==
    [opt EXCEPT !.cache = CachePut(@, HeaderAllowHeaders, GetAllowHeaders(opt))]

StoreExposeHeaders(opt) ==
    [opt EXCEPT !.cache = CachePut(@, HeaderExposeHeaders, GetExposeHeaders(opt))]

StoreMaxAge(opt) ==
    [opt EXCEPT !.cache = CachePut(@, HeaderMaxAge, GetMaxAge(opt))]

NewHandler(opt) ==
    StoreMaxAge(StoreExposeHeaders(StoreAllowHeaders(StoreAllowMethods(MakeCache(opt)))))

CacheKeys == {HeaderAllowMethods, HeaderAllowHeaders, HeaderExposeHeaders, HeaderMaxAge}

---------------------------------------------------------------------------
(* cors.go: handler.ServeHTTP, statement by statement *)

\* if v := ...; v != "" { rw.Header().Set(k, v) }
SetIfNonEmpty(w, k, v) ==
    IF v # "" THEN [w EXCEPT !.header = HeaderSet(@, k, v)] ELSE w

AddVaryReplacing(opt, w) == SetIfNonEmpty(w, HeaderVary, GetVary(opt))

\* if v := o.GetVary(); v != "" { rw.Header().Add(HeaderVary, v) }
AddVary(opt, w) ==
    IF GetVary(opt) # ""
    THEN [w EXCEPT !.header = HeaderAdd(@, HeaderVary, GetVary(opt))]
    ELSE w

SetAllowOrigin(opt, r, w) == SetIfNonEmpty(w, HeaderAllowOrigin, GetAllowOrigin(opt, r))

SetAllowCredentials(opt, w) ==
    SetIfNonEmpty(w, HeaderAllowCredentials, GetAllowCredentials(opt))

\* the three per-request headers, written before the request is classified
SetRequestHeaders(opt, r, w) ==
    SetAllowCredentials(opt, SetAllowOrigin(opt, r, AddVary(opt, w)))

\* if v := o.cache[k]; v != "" { rw.Header().Set(k, v) }
SetFromCache(opt, k, w) == SetIfNonEmpty(w, k, CacheGet(opt.cache, k))

PreflightResponseNoMaxAge(opt, w) ==
    WriteHeader(
        SetFromCache(opt, HeaderAllowHeaders,
            SetFromCache(opt, HeaderAllowMethods, w)),
        StatusNoContent)

PreflightResponse(opt, w) ==
    WriteHeader(
        SetFromCache(opt, HeaderMaxAge,
            SetFromCache(opt, HeaderAllowHeaders,
                SetFromCache(opt, HeaderAllowMethods, w))),
        StatusNoContent)

ActualResponseWithStatus(opt, w) ==
    WriteHeader(SetFromCache(opt, HeaderExposeHeaders, w), 200)

ActualResponse(opt, w) == SetFromCache(opt, HeaderExposeHeaders, w)

ServeHTTP(opt, r, w) ==
    IF IsPreflight(r)
    THEN PreflightResponse(opt, SetRequestHeaders(opt, r, w))
    ELSE ActualResponse(opt, SetRequestHeaders(opt, r, w))

---------------------------------------------------------------------------
(* RulesSpec: the rule methods called on caller-built values *)

OriginTokens == {HeaderValueWildcard, OriginA, OriginB, ""}
OriginLists == Lists(OriginTokens, MaxLen)
RequestOrigins == {"", OriginA, OriginB, HeaderValueWildcard}
RequestMethods == {MethodOptions, "GET", "options"}

RuleRequests ==
    {MkRequest(m, og, am, ah) :
        m \in RequestMethods, og \in RequestOrigins,
        am \in {"", "GET"}, ah \in {"", "Content-Type"}}

ListTokens == {HeaderValueWildcard, "GET", "POST"}
HeaderLists == Lists(ListTokens, MaxLen)
OtherLists == {<<>>, <<"PUT", "DELETE">>}
MaxAges == (-MaxAgeAbs)..MaxAgeAbs

NoResult == [str |-> "", bool |-> FALSE]
StrResult(s) == [str |-> s, bool |-> FALSE]
BoolResult(b) == [str |-> "", bool |-> b]

RequestIdle ==
    /\ rw = NewResponse(EmptyHeader)
    /\ rw0 = NewResponse(EmptyHeader)
    /\ rwCors = NewResponse(EmptyHeader)
    /\ pc = "idle"
    /\ nextCalls = 0
    /\ nextReq = NoRequest

ClientIdle ==
    /\ pcN = "idle"
    /\ handlers = 0
    /\ builds = 0

RulesInit ==
    /\ o = NewOptions
    /\ req = NoRequest
    /\ called = "none"
    /\ result = NoResult
    /\ RequestIdle
    /\ ClientIdle

RulesFrame ==
    /\ rw' = NewResponse(EmptyHeader)
    /\ UNCHANGED <<rw0, rwCors, pc, nextCalls, nextReq, pcN, handlers, builds>>

CallIsPreflight ==
    \E r \in RuleRequests :
        /\ req' = r
        /\ called' = "IsPreflight"
        /\ result' = BoolResult(IsPreflight(r))
        /\ o' = NewOptions
        /\ RulesFrame

CallGetAllowOrigin ==
    \E aos \in OriginLists, og \in RequestOrigins :
        /\ o' = [NewOptions EXCEPT !.AllowOrigins = aos]
        /\ req' = MkRequest("GET", og, "", "")
        /\ called' = "GetAllowOrigin"
        /\ result' = StrResult(GetAllowOrigin(o', req'))
        /\ RulesFrame

CallGetAllowCredentials ==
    \E b \in BOOLEAN :
        /\ o' = [NewOptions EXCEPT !.AllowCredentials = b]
        /\ called' = "GetAllowCredentials"
        /\ result' = StrResult(GetAllowCredentials(o'))
        /\ req' = NoRequest
        /\ RulesFrame

CallGetAllowMethods ==
    \E l \in HeaderLists, other \in OtherLists :
        /\ o' = [NewOptions EXCEPT !.AllowMethods = l, !.AllowHeaders = other,
                                   !.ExposeHeaders = other]
        /\ called' = "GetAllowMethods"
        /\ result' = StrResult(GetAllowMethods(o'))
        /\ req' = NoRequest
        /\ RulesFrame

CallGetAllowHeaders ==
    \E l \in HeaderLists, other \in OtherLists :
        /\ o' = [NewOptions EXCEPT !.AllowHeaders = l, !.AllowMethods = other,
                                   !.ExposeHeaders = other]
        /\ called' = "GetAllowHeaders"
        /\ result' = StrResult(GetAllowHeaders(o'))
        /\ req' = NoRequest
        /\ RulesFrame

CallGetExposeHeaders ==
    \E l \in HeaderLists, other \in OtherLists :
        /\ o' = [NewOptions EXCEPT !.ExposeHeaders = l, !.AllowMethods = other,
                                   !.AllowHeaders = other]
        /\ called' = "GetExposeHeaders"
        /\ result' = StrResult(GetExposeHeaders(o'))
        /\ req' = NoRequest
        /\ RulesFrame

CallGetMaxAge ==
    \E n \in MaxAges :
        /\ o' = [NewOptions EXCEPT !.MaxAge = n]
        /\ called' = "GetMaxAge"
        /\ result' = StrResult(GetMaxAge(o'))
        /\ req' = NoRequest
        /\ RulesFrame

CallGetVary ==
    \E aos \in OriginLists :
        /\ o' = [NewOptions EXCEPT !.AllowOrigins = aos]
        /\ called' = "GetVary"
        /\ result' = StrResult(GetVary(o'))
        /\ req' = NoRequest
        /\ RulesFrame

\* o.NewHandler().ServeHTTP(rec, req) on a fresh recorder, as in cors_test.go
HandlerRequests ==
    {MkRequest(MethodOptions, OriginA, "GET", "Content-Type"),
     MkRequest(MethodOptions, OriginB, "POST", "X-Token"),
     MkRequest(MethodOptions, OriginA, "", ""),
     MkRequest("GET", OriginA, "", "")}

HandlerOriginLists ==
    {<<>>, <<HeaderValueWildcard>>, <<HeaderValueWildcard, OriginA>>}

CallNewHandlerServeHTTP ==
    \E n \in MaxAges, aos \in HandlerOriginLists, r \in HandlerRequests :
        /\ o' = NewHandler([NewOptions EXCEPT !.MaxAge = n, !.AllowOrigins = aos])
        /\ req' = r
        /\ rw' = ServeHTTP(o', r, NewResponse(EmptyHeader))
        /\ called' = "ServeHTTP"
        /\ result' = NoResult
        /\ UNCHANGED <<rw0, rwCors, pc, nextCalls, nextReq, pcN, handlers, builds>>

RulesNext ==
    \/ CallIsPreflight
    \/ CallGetAllowOrigin
    \/ CallGetAllowCredentials
    \/ CallGetAllowMethods
    \/ CallGetAllowHeaders
    \/ CallGetExposeHeaders
    \/ CallGetMaxAge
    \/ CallGetVary
    \/ CallNewHandlerServeHTTP

RulesSpec == RulesInit /\ [][RulesNext]_vars

---------------------------------------------------------------------------
(* Spec: the Traefik plugin, plugin.go *)

CreateConfig ==
    [AllowCredentials |-> FALSE,
     AllowHeaders     |-> <<>>,
     AllowMethods     |-> <<"HEAD", "GET", "POST">>,
     AllowOrigins     |-> <<"*">>,
     ExposeHeaders    |-> <<>>,
     MaxAge           |-> DefaultMaxAge]

\* the policy of TestHandler_ServeHTTP
TestConfig ==
    [AllowCredentials |-> FALSE,
     AllowHeaders     |-> <<"Content-Type", "Authorization">>,
     AllowMethods     |-> <<"GET", "POST">>,
     AllowOrigins     |-> <<OriginA>>,
     ExposeHeaders    |-> <<>>,
     MaxAge           |-> DefaultMaxAge]

CfgOriginLists ==
    {<<>>, <<HeaderValueWildcard>>, <<OriginA>>, <<OriginA, OriginB>>,
     <<HeaderValueWildcard, OriginA>>, <<OriginA, HeaderValueWildcard>>}

Configs ==
    [AllowCredentials : BOOLEAN,
     AllowHeaders     : Lists({"Content-Type"}, MaxCfgLen),
     AllowMethods     : Lists({HeaderValueWildcard, "GET"}, MaxCfgLen),
     AllowOrigins     : CfgOriginLists,
     ExposeHeaders    : Lists({"X-Request-Id"}, MaxCfgLen),
     MaxAge           : {-1, 0, DefaultMaxAge}]
    \cup {CreateConfig, TestConfig}

\* New: the Options built from the Config, then c.NewHandler()
New(config) ==
    NewHandler(
        [AllowCredentials |-> config.AllowCredentials,
         AllowHeaders     |-> config.AllowHeaders,
         AllowMethods     |-> config.AllowMethods,
         AllowOrigins     |-> config.AllowOrigins,
         ExposeHeaders    |-> config.ExposeHeaders,
         MaxAge           |-> config.MaxAge,
         cache            |-> NilCache])

PluginRequests ==
    {MkRequest(m, og, am, ah) :
        m \in {MethodOptions, "GET"}, og \in {"", OriginA, OriginB},
        am \in {"", "GET"}, ah \in {"", "Content-Type"}}

PriorHeaders == {EmptyHeader, UsedHeader}

\* what the next stage answers with
NextStatuses == {200, 204}
NextBody == "payload"

PluginFrame == UNCHANGED <<o, called, result, pcN, handlers, builds>>

Init ==
    /\ \E config \in Configs : o = New(config)
    /\ req = NoRequest
    /\ called = "none"
    /\ result = NoResult
    /\ RequestIdle
    /\ ClientIdle

\* plugin.go:59, a request enters CorsPlugin.ServeHTTP: c.cors.ServeHTTP(rw, req)
PluginCorsServeHTTP ==
    /\ pc = "idle"
    /\ \E r \in PluginRequests, h \in PriorHeaders :
        /\ req' = r
        /\ rw0' = NewResponse(h)
        /\ rw' = ServeHTTP(o, r, NewResponse(h))
        /\ rwCors' = rw'
    /\ nextCalls' = 0
    /\ nextReq' = NoRequest
    /\ pc' = "l61"
    /\ PluginFrame

PluginForwardsAlways(r) == TRUE

\* plugin.go:61-63: the request goes on unless it is a preflight
PluginForwards(r) == ~IsPreflight(r)

PluginClassify ==
    /\ pc = "l61"
    /\ pc' = IF PluginForwards(req) THEN "l65" ELSE "returned"
    /\ UNCHANGED <<req, rw, rw0, rwCors, nextCalls, nextReq>>
    /\ PluginFrame

\* plugin.go:65: c.next.ServeHTTP(rw, req)
PluginNextServeHTTP ==
    /\ pc = "l65"
    /\ nextCalls' = nextCalls + 1
    /\ nextReq' = req
    /\ \E st \in NextStatuses : rw' = [WriteHeader(rw, st) EXCEPT !.body = NextBody]
    /\ pc' = "returned"
    /\ UNCHANGED <<req, rw0, rwCors>>
    /\ PluginFrame

\* CorsPlugin.ServeHTTP has returned; the plugin waits for the next request
PluginReturn ==
    /\ pc = "returned"
    /\ pc' = "idle"
    /\ req' = NoRequest
    /\ rw' = NewResponse(EmptyHeader)
    /\ rw0' = NewResponse(EmptyHeader)
    /\ rwCors' = NewResponse(EmptyHeader)
    /\ nextCalls' = 0
    /\ nextReq' = NoRequest
    /\ PluginFrame

Next ==
    \/ PluginCorsServeHTTP
    \/ PluginClassify
    \/ PluginNextServeHTTP
    \/ PluginReturn

Spec == Init /\ [][Next]_vars

---------------------------------------------------------------------------
(* LibSpec: package cors used directly.  A client goroutine holds the *Options *)
(* and calls NewHandler on it; a server goroutine runs handler.ServeHTTP on  *)
(* the handler, which is the same pointer.  Both run statement by statement. *)

LibOptions ==
    {[NewOptions EXCEPT !.AllowOrigins = <<OriginA>>,
                        !.AllowMethods = <<"GET", "POST">>,
                        !.AllowHeaders = <<"Content-Type", "Authorization">>,
                        !.ExposeHeaders = <<"X-Request-Id">>],
     [NewOptions EXCEPT !.AllowOrigins = <<HeaderValueWildcard>>,
                        !.AllowMethods = <<"HEAD", "GET", "POST">>,
                        !.MaxAge = -1]}
    \cup {[NewOptions EXCEPT !.AllowCredentials = b, !.AllowOrigins = aos,
                              !.AllowMethods = <<"GET">>] :
              b \in BOOLEAN, aos \in CfgOriginLists}

LibRequests ==
    {MkRequest(MethodOptions, OriginA, "GET", "Content-Type"),
     MkRequest(MethodOptions, OriginB, "GET", "Content-Type"),
     MkRequest("GET", OriginA, "", ""),
     MkRequest("GET", "", "", "")}

LibInit ==
    /\ o \in LibOptions
    /\ req = NoRequest
    /\ called = "none"
    /\ result = NoResult
    /\ RequestIdle
    /\ ClientIdle

ClientFrame == UNCHANGED <<req, rw, rw0, rwCors, pc, nextCalls, nextReq, called, result>>

\* cors.go:225  o.cache = make(map[string]string)
NewHandlerMakeCache ==
    /\ pcN = "idle"
    /\ builds < MaxBuilds
    /\ o' = MakeCache(o)
    /\ builds' = builds + 1
    /\ pcN' = "l227"
    /\ UNCHANGED handlers
    /\ ClientFrame

\* cors.go:227
NewHandlerStoreAllowMethods ==
    /\ pcN = "l227"
    /\ o' = StoreAllowMethods(o)
    /\ pcN' = "l228"
    /\ UNCHANGED <<handlers, builds>>
    /\ ClientFrame

\* cors.go:228
NewHandlerStoreAllowHeaders ==
    /\ pcN = "l228"
    /\ o' = StoreAllowHeaders(o)
    /\ pcN' = "l229"
    /\ UNCHANGED <<handlers, builds>>
    /\ ClientFrame

\* cors.go:229
NewHandlerStoreExposeHeaders ==
    /\ pcN = "l229"
    /\ o' = StoreExposeHeaders(o)
    /\ pcN' = "l230"
    /\ UNCHANGED <<handlers, builds>>
    /\ ClientFrame

\* cors.go:230
NewHandlerStoreMaxAge ==
    /\ pcN = "l230"
    /\ o' = StoreMaxAge(o)
    /\ pcN' = "l232"
    /\ UNCHANGED <<handlers, builds>>
    /\ ClientFrame

\* cors.go:232  return (*handler)(o)
NewHandlerReturn ==
    /\ pcN = "l232"
    /\ handlers' = handlers + 1
    /\ pcN' = "idle"
    /\ UNCHANGED <<o, builds>>
    /\ ClientFrame

ServerFrame == UNCHANGED <<o, nextCalls, nextReq, called, result, pcN, handlers, builds>>

\* a request reaches a handler NewHandler has returned
HandlerAccept ==
    /\ pc = "idle"
    /\ handlers >= 1
    /\ \E r \in LibRequests : req' = r
    /\ \E h \in PriorHeaders :
        /\ rw' = NewResponse(h)
        /\ rw0' = NewResponse(h)
    /\ rwCors' = NewResponse(EmptyHeader)
    /\ pc' = "l242"
    /\ ServerFrame

\* cors.go:242-252
HandlerSetRequestHeaders ==
    /\ pc = "l242"
    /\ rw' = SetRequestHeaders(o, req, rw)
    /\ pc' = "l254"
    /\ UNCHANGED <<req, rw0, rwCors>>
    /\ ServerFrame

\* cors.go:254
HandlerClassify ==
    /\ pc = "l254"
    /\ pc' = IF IsPreflight(req) THEN "l255" ELSE "l272"
    /\ UNCHANGED <<req, rw, rw0, rwCors>>
    /\ ServerFrame

\* the statement at each position that reads o.cache, and the position after it
CacheReadAt ==
    ("l255" :> HeaderAllowMethods) @@ ("l259" :> HeaderAllowHeaders) @@
    ("l263" :> HeaderMaxAge) @@ ("l272" :> HeaderExposeHeaders)

AfterCacheRead ==
    ("l255" :> "l259") @@ ("l259" :> "l263") @@ ("l263" :> "l267") @@
    ("l272" :> "returned")

\* NewHandler is between make (225) and its return: o.cache is being written
UnderConstruction == pcN # "idle"

\* cors.go:255-265, 272-274: read o.cache[k], set the header if non-empty
HandlerReadCache ==
    /\ pc \in DOMAIN CacheReadAt
    /\ rw' = SetFromCache(o, CacheReadAt[pc], rw)
    /\ pc' = AfterCacheRead[pc]
    /\ UNCHANGED <<req, rw0, rwCors>>
    /\ ServerFrame

\* the same read racing with the writes of NewHandler: unsynchronised access to
\* a Go map, which the runtime may end with "concurrent map read and map write"
HandlerReadCacheFatal ==
    /\ pc \in DOMAIN CacheReadAt
    /\ UnderConstruction
    /\ pc' = "fatal"
    /\ UNCHANGED <<req, rw, rw0, rwCors>>
    /\ ServerFrame

\* cors.go:267  rw.WriteHeader(http.StatusNoContent)
HandlerWriteHeader ==
    /\ pc = "l267"
    /\ rw' = WriteHeader(rw, StatusNoContent)
    /\ pc' = "returned"
    /\ UNCHANGED <<req, rw0, rwCors>>
    /\ ServerFrame

HandlerReturn ==
    /\ pc = "returned"
    /\ pc' = "idle"
    /\ req' = NoRequest
    /\ rw' = NewResponse(EmptyHeader)
    /\ rw0' = NewResponse(EmptyHeader)
    /\ rwCors' = NewResponse(EmptyHeader)
    /\ ServerFrame

Running == pc # "fatal"

LibNext ==
    \/ Running /\ NewHandlerMakeCache
    \/ Running /\ NewHandlerStoreAllowMethods
    \/ Running /\ NewHandlerStoreAllowHeaders
    \/ Running /\ NewHandlerStoreExposeHeaders
    \/ Running /\ NewHandlerStoreMaxAge
    \/ Running /\ NewHandlerReturn
    \/ HandlerAccept
    \/ HandlerSetRequestHeaders
    \/ HandlerClassify
    \/ HandlerReadCache
    \/ HandlerReadCacheFatal
    \/ HandlerWriteHeader
    \/ HandlerReturn

LibSpec == LibInit /\ [][LibNext]_vars

---------------------------------------------------------------------------
(* Reading header values back, for the properties below *)

\* strings.Split(s, sep): the fields of s between occurrences of sep
RECURSIVE SplitFrom(_, _, _, _)
SplitFrom(s, sep, i, field) ==
    IF i > Len(s) THEN <<field>>
    ELSE IF i + Len(sep) - 1 <= Len(s) /\ SubSeq(s, i, i + Len(sep) - 1) = sep
         THEN <<field>> \o SplitFrom(s, sep, i + Len(sep), "")
    ELSE SplitFrom(s, sep, i + 1, field \o SubSeq(s, i, i))

Split(s, sep) == SplitFrom(s, sep, 1, "")

DigitValue ==
    ("0" :> 0) @@ ("1" :> 1) @@ ("2" :> 2) @@ ("3" :> 3) @@ ("4" :> 4) @@
    ("5" :> 5) @@ ("6" :> 6) @@ ("7" :> 7) @@ ("8" :> 8) @@ ("9" :> 9)

IsDigits(s) ==
    /\ Len(s) >= 1
    /\ \A i \in 1..Len(s) : SubSeq(s, i, i) \in DOMAIN DigitValue
    /\ Len(s) > 1 => SubSeq(s, 1, 1) # "0"

\* a decimal integer literal: digits without leading zeros, "-" before a negative
IsDecimal(s) ==
    IF Len(s) >= 1 /\ SubSeq(s, 1, 1) = "-"
    THEN IsDigits(SubSeq(s, 2, Len(s))) /\ s # "-0"
    ELSE IsDigits(s)

RECURSIVE ParseUint(_)
ParseUint(s) ==
    IF Len(s) = 0 THEN 0
    ELSE 10 * ParseUint(SubSeq(s, 1, Len(s) - 1)) + DigitValue[SubSeq(s, Len(s), Len(s))]

Atoi(s) ==
    IF SubSeq(s, 1, 1) = "-" THEN 0 - ParseUint(SubSeq(s, 2, Len(s))) ELSE ParseUint(s)

---------------------------------------------------------------------------
(* Properties of the rule methods (RulesSpec) *)

\* C1: IsPreflight returns true if and only if the method is exactly OPTIONS and
\* the Origin, Access-Control-Request-Method and Access-Control-Request-Headers
\* headers are all non-empty; if any one of the four fails it returns false.
C1_IsPreflightIffAllFour ==
    called = "IsPreflight" =>
        /\ result.bool <=>
              /\ req.Method = "OPTIONS"
              /\ req.Header["Origin"] # ""
              /\ req.Header["Access-Control-Request-Method"] # ""
              /\ req.Header["Access-Control-Request-Headers"] # ""
        /\ req.Method # "OPTIONS" => ~result.bool
        /\ req.Header["Origin"] = "" => ~result.bool
        /\ req.Header["Access-Control-Request-Method"] = "" => ~result.bool
        /\ req.Header["Access-Control-Request-Headers"] = "" => ~result.bool

\* an OPTIONS request lacking only Access-Control-Request-Headers was classified
C1_Witness ==
    /\ called = "IsPreflight"
    /\ req.Method = "OPTIONS"
    /\ req.Header["Origin"] # ""
    /\ req.Header["Access-Control-Request-Method"] # ""
    /\ req.Header["Access-Control-Request-Headers"] = ""
    /\ ~result.bool

\* C5: GetAllowOrigin returns "*" if the wildcard appears anywhere in the list
\* (before or after a literal match), otherwise the request's Origin if some
\* configured entry equals it exactly, otherwise "". So the result is never an
\* origin absent from the list and an empty list never yields a value.
C5_AllowOriginRule ==
    called = "GetAllowOrigin" =>
        LET aos    == o.AllowOrigins
            origin == req.Header["Origin"]
        IN  /\ result.str =
                  IF \E i \in 1..Len(aos) : aos[i] = "*" THEN "*"
                  ELSE IF \E i \in 1..Len(aos) : aos[i] = origin THEN origin
                  ELSE ""
            /\ result.str # "" => result.str \in Range(aos)
            /\ aos = <<>> => result.str = ""

\* the wildcard follows a literal match of the request's Origin
C5_Witness ==
    /\ called = "GetAllowOrigin"
    /\ Len(o.AllowOrigins) = 2
    /\ o.AllowOrigins[1] = req.Header["Origin"]
    /\ o.AllowOrigins[1] # "*"
    /\ o.AllowOrigins[2] = "*"
    /\ result.str = "*"

\* C6: each of GetAllowMethods, GetAllowHeaders and GetExposeHeaders returns "*"
\* if the wildcard is at any position of its own list, otherwise the entries
\* joined with ", " in configured order; an empty list yields "".
ListRuleHolds(l, s) ==
    IF \E i \in 1..Len(l) : l[i] = "*" THEN s = "*"
    ELSE IF l = <<>> THEN s = ""
    ELSE /\ Split(s, ", ") = l
         /\ Len(s) = 2 * (Len(l) - 1) + Len(Join(l, ""))

C6_ListRules ==
    /\ called = "GetAllowMethods" => ListRuleHolds(o.AllowMethods, result.str)
    /\ called = "GetAllowHeaders" => ListRuleHolds(o.AllowHeaders, result.str)
    /\ called = "GetExposeHeaders" => ListRuleHolds(o.ExposeHeaders, result.str)

\* ["GET", "POST"] was rendered as "GET, POST"
C6_Witness ==
    /\ called = "GetAllowMethods"
    /\ o.AllowMethods = <<"GET", "POST">>
    /\ result.str = "GET, POST"

\* the Allow-Origin decision of a policy depends on the request
OriginDecisionDependsOnRequest(opt) ==
    \E r1, r2 \in RuleRequests : GetAllowOrigin(opt, r1) # GetAllowOrigin(opt, r2)

C8_NoVaryWithWildcard ==
    "*" \in Range(o.AllowOrigins) =>
        /\ called = "GetVary" => result.str = ""
        /\ called = "ServeHTTP" => rw.header["Vary"] = <<>>

\* C10: GetMaxAge returns the decimal rendering of the configured integer, zero
\* and negative values included, never ""; every preflight response carries it
\* as Access-Control-Max-Age.
C10_MaxAgeDecimal ==
    /\ called = "GetMaxAge" =>
          /\ result.str # ""
          /\ IsDecimal(result.str)
          /\ Atoi(result.str) = o.MaxAge
    /\ (called = "ServeHTTP" /\ IsPreflight(req)) =>
          /\ Len(rw.header["Access-Control-Max-Age"]) = 1
          /\ IsDecimal(rw.header["Access-Control-Max-Age"][1])
          /\ Atoi(rw.header["Access-Control-Max-Age"][1]) = o.MaxAge

\* a preflight answered under a negative maxAge
C10_Witness ==
    /\ called = "ServeHTTP"
    /\ IsPreflight(req)
    /\ o.MaxAge = -1
    /\ rw.header["Access-Control-Max-Age"] = <<"-1">>
    /\ rw.status = 204

---------------------------------------------------------------------------
(* Properties of the plugin (Spec) *)

\* the header k of the response equals the cached value v when v is non-empty,
\* and is what it was on arrival otherwise
SetOnlyIfNonEmpty(w, k, v) ==
    w.header[k] = IF v # "" THEN <<v>> ELSE rw0.header[k]

PreflightOnlyHeaders ==
    {"Access-Control-Allow-Methods", "Access-Control-Allow-Headers",
     "Access-Control-Max-Age"}

\* C2: the next stage is invoked exactly once for a request that is not a
\* preflight and never for a preflight, never more than once, and it is invoked
\* if and only if the core did not write status 204.
C2_NextOncePerActualRequest ==
    /\ nextCalls <= 1
    /\ IsPreflight(req) => nextCalls = 0
    /\ pc = "returned" =>
          /\ nextCalls = IF IsPreflight(req) THEN 0 ELSE 1
          /\ nextCalls = 1 <=> rwCors.status # 204

\* an OPTIONS request without the Access-Control-Request-* headers went through
C2_Witness ==
    /\ pc = "returned"
    /\ req.Method = "OPTIONS"
    /\ req.Header["Origin"] # ""
    /\ ~IsPreflight(req)
    /\ nextCalls = 1
    /\ rwCors.status = 0

\* C3: for every preflight, its Origin allowed or not, the handler sets
\* Allow-Methods, Allow-Headers and Max-Age to the precomputed value (each only
\* when non-empty), writes 204 with an empty body and does not forward.
C3_PreflightAnswered ==
    (pc \in {"l61", "returned"} /\ IsPreflight(req)) =>
        /\ \A k \in PreflightOnlyHeaders : SetOnlyIfNonEmpty(rw, k, CacheGet(o.cache, k))
        /\ rw.status = 204
        /\ rw.body = ""
        /\ nextCalls = 0
        /\ nextReq = NoRequest

\* a preflight from an origin the policy does not allow was answered
C3_Witness ==
    /\ pc = "returned"
    /\ IsPreflight(req)
    /\ GetAllowOrigin(o, req) = ""
    /\ rw.header["Access-Control-Allow-Origin"] = <<>>
    /\ rw.header["Access-Control-Allow-Methods"] = <<"GET">>
    /\ rw.header["Access-Control-Allow-Headers"] = <<"Content-Type">>
    /\ rw.header["Access-Control-Max-Age"] = <<"-1">>
    /\ rw.status = 204

\* C4: for every request that is not a preflight the core sets Expose-Headers
\* from the precomputed value (only if non-empty) before the next stage is
\* invoked, writes no status, sets none of Allow-Methods, Allow-Headers and
\* Max-Age, and forwards the request as it came: the next stage alone decides
\* status and body.
C4_ActualRequestForwarded ==
    (pc \in {"l61", "l65", "returned"} /\ ~IsPreflight(req)) =>
        /\ SetOnlyIfNonEmpty(rwCors, "Access-Control-Expose-Headers",
                             CacheGet(o.cache, "Access-Control-Expose-Headers"))
        /\ \A k \in PreflightOnlyHeaders : rwCors.header[k] = rw0.header[k]
        /\ rwCors.status = 0
        /\ rwCors.body = ""
        /\ pc \in {"l61", "l65"} => (nextCalls = 0 /\ rw = rwCors)
        /\ pc = "returned" =>
              /\ nextCalls = 1
              /\ nextReq = req
              /\ rw.status \in NextStatuses
              /\ rw.body = NextBody

\* about to call the next stage, Expose-Headers already on the response
C4_Witness ==
    /\ pc = "l65"
    /\ ~IsPreflight(req)
    /\ nextCalls = 0
    /\ rw.header["Access-Control-Expose-Headers"] = <<"X-Request-Id">>
    /\ rw0.header["Access-Control-Expose-Headers"] = <<"stale">>
    /\ rw.status = 0

---------------------------------------------------------------------------
(* Properties of the cache under concurrent use (LibSpec) *)

CacheComplete == DOMAIN o.cache = CacheKeys

\* C9: the cache is populated exactly once, before any request is served from
\* it, and is never written afterward; under any interleaving of NewHandler
\* calls and ServeHTTP invocations on the same Options no request reads the
\* cache while it is being constructed or observes a partially built cache.
C9_CacheBuiltOnceBeforeServing ==
    /\ builds <= 1
    /\ handlers >= 1 => (~UnderConstruction /\ CacheComplete)
    /\ pc \in DOMAIN CacheReadAt => (~UnderConstruction /\ CacheComplete)
    /\ pc # "fatal"

---------------------------------------------------------------------------
(* Properties of the per-request headers (LibSpec) *)

\* positions of handler.ServeHTTP after lines 242-252
AfterRequestHeaders == {"l254", "l255", "l259", "l263", "l267", "l272", "returned"}

PerRequestHeaders ==
    {"Vary", "Access-Control-Allow-Origin", "Access-Control-Allow-Credentials"}

\* C11: on every request, before it is classified, the handler appends the Vary
\* value to the response, keeping the Vary values already there, and sets
\* Access-Control-Allow-Origin and Access-Control-Allow-Credentials over any
\* prior value; each is written only when its computed value is non-empty and is
\* otherwise left as it was. Allow-Credentials is "true" iff the credentials flag
\* is set, whatever the request and the Allow-Origin outcome.
C11_PerRequestHeaders ==
    /\ pc = "l242" => rw = rw0
    /\ pc \in AfterRequestHeaders =>
          /\ rw.header["Vary"] =
                IF GetVary(o) # "" THEN rw0.header["Vary"] \o <<GetVary(o)>>
                ELSE rw0.header["Vary"]
          /\ rw.header["Access-Control-Allow-Origin"] =
                IF GetAllowOrigin(o, req) # "" THEN <<GetAllowOrigin(o, req)>>
                ELSE rw0.header["Access-Control-Allow-Origin"]
          /\ rw.header["Access-Control-Allow-Credentials"] =
                IF o.AllowCredentials THEN <<"true">>
                ELSE rw0.header["Access-Control-Allow-Credentials"]
    /\ pc = "l254" =>
          /\ \A k \in ResponseHeaderNames \ PerRequestHeaders :
                rw.header[k] = rw0.header[k]
          /\ rw.status = 0
          /\ rw.body = ""

\* about to classify a request whose Origin is not allowed: Vary appended to the
\* value already there, Allow-Origin left alone, Allow-Credentials overwritten
C11_Witness ==
    /\ pc = "l254"
    /\ o.AllowCredentials
    /\ GetAllowOrigin(o, req) = ""
    /\ rw0.header["Vary"] = <<"Accept-Encoding">>
    /\ rw.header["Vary"] = <<"Accept-Encoding", "Origin">>
    /\ rw.header["Access-Control-Allow-Origin"] = <<"stale">>
    /\ rw0.header["Access-Control-Allow-Credentials"] = <<"stale">>
    /\ rw.header["Access-Control-Allow-Credentials"] = <<"true">>

---------------------------------------------------------------------------
(* The caching handler against one that recomputes every header (Spec) *)

\* what the rule methods return for the configuration as it is now
Recomputed(opt, k) ==
    IF k = "Access-Control-Allow-Methods" THEN GetAllowMethods(opt)
    ELSE IF k = "Access-Control-Allow-Headers" THEN GetAllowHeaders(opt)
    ELSE IF k = "Access-Control-Max-Age" THEN GetMaxAge(opt)
    ELSE GetExposeHeaders(opt)

SetRecomputed(opt, k, w) ==
    IF Recomputed(opt, k) # ""
    THEN [w EXCEPT !.header = [@ EXCEPT ![k] = <<Recomputed(opt, k)>>]]
    ELSE w

\* a handler without cache: every header computed from the Options per request
RecomputingServeHTTP(opt, r, w) ==
    LET w1 == SetRequestHeaders(opt, r, w)
    IN  IF IsPreflight(r)
        THEN [SetRecomputed(opt, "Access-Control-Max-Age",
                 SetRecomputed(opt, "Access-Control-Allow-Headers",
                     SetRecomputed(opt, "Access-Control-Allow-Methods", w1)))
              EXCEPT !.status = 204]
        ELSE SetRecomputed(opt, "Access-Control-Expose-Headers", w1)

CacheAgreesWithRules ==
    /\ DOMAIN o.cache =
          {"Access-Control-Allow-Methods", "Access-Control-Allow-Headers",
           "Access-Control-Max-Age", "Access-Control-Expose-Headers"}
    /\ \A k \in DOMAIN o.cache : o.cache[k] = Recomputed(o, k)

EmitsAsRecomputing ==
    pc \in {"l61", "l65", "returned"} => rwCors = RecomputingServeHTTP(o, req, rw0)

\* C12: after NewHandler, for any sequence of requests, the Allow-Methods,
\* Allow-Headers, Max-Age and Expose-Headers values the handler emits from its
\* cache are what GetAllowMethods, GetAllowHeaders, GetMaxAge and GetExposeHeaders
\* return for the configuration at the time of the request: the handler answers
\* as one that recomputes every header per request, and serving a request
\* changes neither the configured lists nor the cache.
C12_CacheEquivalentToRecomputing ==
    /\ [](CacheAgreesWithRules /\ EmitsAsRecomputing)
    /\ [][o' = o]_vars

\* a preflight answered from the cache with the joined lists of the policy of
\* TestHandler_ServeHTTP
C12_Witness ==
    /\ pc = "returned"
    /\ IsPreflight(req)
    /\ o.AllowMethods = <<"GET", "POST">>
    /\ o.AllowHeaders = <<"Content-Type", "Authorization">>
    /\ rw.header["Access-Control-Allow-Methods"] = <<"GET, POST">>
    /\ rw.header["Access-Control-Allow-Headers"] = <<"Content-Type, Authorization">>
    /\ rw.header["Access-Control-Max-Age"] = <<"5">>
    /\ rw.header["Access-Control-Allow-Origin"] = <<"https://example.com">>
    /\ rw.status = 204

=============================================================================
